---- MODULE Spec2Model ----
(***************************************************************************)
(* A model of confluence-sync: the MetadataStore (identity store), the     *)
(* file codec of SyncManager, the ConfluenceClient gateway calls and the   *)
(* pull / push / status operations of SyncManager.                         *)
(*                                                                         *)
(* Text (file contents, titles, header values) is a sequence of tokens.    *)
(* A token is a word or one special character: NL is the line break,       *)
(* COLON is ':', SP is ' '.  Splitting, stripping and integer conversion   *)
(* work on these sequences the way the Python string methods work on       *)
(* characters.                                                             *)
(***************************************************************************)
EXTENDS Integers, Sequences, FiniteSets, TLC

VARIABLES
    remote,     \* the Confluence space: page id -> page (title, version, body ...)
    files,      \* the local directory: file name -> file text
    disk,       \* .confluence-sync/metadata.json: [exists, data]
    store,      \* MetadataStore._metadata of the running SyncManager
    pc,         \* position of the running command: "idle", "push", "push_write"
    queue,      \* push: the file paths still to be processed
    cur,        \* push: the PageInfo between the version check and update_page
    outcomes,   \* push: what happened to each processed path, in order
    calls,      \* gateway calls made by the last step of a command
    report,     \* what the last status command printed
    last,       \* the last step of a command, with what it observed
    edits,      \* number of user edits made to the local directory
    others,     \* number of versions saved by other writers of the space
    absLocal,   \* config.local_path is an absolute path below the working directory
    hist,       \* how the running push got its paths, and the file whose push
                \* was reported as a conflict, followed through pull and retry
    codec,      \* a record, its encoded text and the decoded text (codec runs)
    heap,       \* a MetadataStore in memory: its entry dicts by reference, the
                \* mapping of the store and the mapping get_all_pages returned
    safe_name,  \* a page title and the file name made from it
    config      \* the arguments of save_interactive_config, the file it wrote
                \* and what load() made of it

\* the variables of the runs of single components
units == <<heap, safe_name, config>>

vars == <<remote, files, disk, store, pc, queue, cur, outcomes, calls, report,
          last, edits, others, absLocal, hist, codec, units>>

----------------------------------------------------------------------------
(* Tokens *)

NL    == "\n"
COLON == ":"
SP    == " "
DELIM == "---"

Digits == <<"0", "1", "2", "3", "4", "5", "6", "7", "8", "9">>

IsDigit(t) == \E i \in 1..Len(Digits) : Digits[i] = t

DigitVal(t) == (CHOOSE i \in 1..Len(Digits) : Digits[i] = t) - 1

IsSpace(t) == t \in {SP, NL}

----------------------------------------------------------------------------
(* Python string primitives on token sequences *)

\* str.strip(): drop leading and trailing whitespace
RECURSIVE LStrip(_)
LStrip(s) == IF s # <<>> /\ IsSpace(Head(s)) THEN LStrip(Tail(s)) ELSE s

RECURSIVE RStrip(_)
RStrip(s) ==
    IF s # <<>> /\ IsSpace(s[Len(s)]) THEN RStrip(SubSeq(s, 1, Len(s) - 1)) ELSE s

Strip(s) == RStrip(LStrip(s))

\* position of the first token t in s, 0 when there is none
IndexOf(s, t) ==
    IF \E i \in 1..Len(s) : s[i] = t
    THEN CHOOSE i \in 1..Len(s) : s[i] = t /\ \A j \in 1..(i - 1) : s[j] # t
    ELSE 0

\* str.split('\n'): always at least one line
RECURSIVE SplitLines(_)
SplitLines(s) ==
    LET i == IndexOf(s, NL)
    IN  IF i = 0 THEN <<s>>
        ELSE <<SubSeq(s, 1, i - 1)>> \o SplitLines(SubSeq(s, i + 1, Len(s)))

\* '\n'.join(lines)
RECURSIVE JoinLines(_)
JoinLines(ls) ==
    IF ls = <<>> THEN <<>>
    ELSE IF Len(ls) = 1 THEN ls[1]
    ELSE ls[1] \o <<NL>> \o JoinLines(Tail(ls))

\* str(n) for n >= 0
RECURSIVE IntToStr(_)
IntToStr(n) ==
    IF n < 10 THEN <<Digits[n + 1]>>
    ELSE IntToStr(n \div 10) \o <<Digits[(n % 10) + 1]>>

\* int(s): a non-empty run of digits converts, anything else raises ValueError
IsIntStr(s) == s # <<>> /\ \A i \in 1..Len(s) : IsDigit(s[i])

RECURSIVE StrToInt(_)
StrToInt(s) ==
    IF Len(s) = 1 THEN DigitVal(s[1])
    ELSE 10 * StrToInt(SubSeq(s, 1, Len(s) - 1)) + DigitVal(s[Len(s)])

----------------------------------------------------------------------------
(* PageInfo and the file codec of SyncManager *)

\* Python's None for an Optional[str]
None == <<"<None>">>

\* config.confluence.space_key
SpaceKey == <<"DOCS">>

PageInfo(id, title, version, content, parent_id, space_key) ==
    [id |-> id, title |-> title, version |-> version, content |-> content,
     parent_id |-> parent_id, space_key |-> space_key]

\* x or "" / x or None, for an Optional[str]
OrEmpty(x) == IF x = None \/ x = <<>> THEN <<>> ELSE x
OrNone(x)  == IF x = None \/ x = <<>> THEN None ELSE x

HeaderLine(key, value) == <<key, COLON, SP>> \o value

create_file_content(page_info) ==
    <<DELIM, NL>>
    \o HeaderLine("confluence_id", page_info.id) \o <<NL>>
    \o HeaderLine("confluence_title", page_info.title) \o <<NL>>
    \o HeaderLine("confluence_version", IntToStr(page_info.version)) \o <<NL>>
    \o HeaderLine("confluence_parent_id", OrEmpty(page_info.parent_id)) \o <<NL>>
    \o HeaderLine("confluence_space_key", page_info.space_key) \o <<NL>>
    \o <<DELIM, NL, NL>>
    \o page_info.content

\* key, value = line.split(':', 1), both stripped; has: the line holds a ':'
LineKeyValue(line) ==
    LET c == IndexOf(line, COLON)
    IN  IF c = 0 THEN [has |-> FALSE, key |-> <<>>, value |-> <<>>]
        ELSE [has |-> TRUE, key |-> Strip(SubSeq(line, 1, c - 1)),
              value |-> Strip(SubSeq(line, c + 1, Len(line)))]

\* the header lines as key/value pairs, in the order they are written
HeaderPairs(hdr) == [i \in 1..Len(hdr) |-> LineKeyValue(hdr[i])]

\* the dict built from the pairs, read at key: a later line overwrites an
\* earlier one, a line without ':' is skipped
RECURSIVE MetaScan(_, _, _, _)
MetaScan(pairs, key, default, i) ==
    IF i = 0 THEN default
    ELSE IF pairs[i].has /\ pairs[i].key = <<key>> THEN pairs[i].value
    ELSE MetaScan(pairs, key, default, i - 1)

\* a lookup that answers the empty string for a key that is not there
MetaGetOrEmpty(pairs, key, default) == MetaScan(pairs, key, <<>>, Len(pairs))

MetaGet(pairs, key, default) == MetaScan(pairs, key, default, Len(pairs))

\* index of the first '---' line after the first line, 0 when there is none
MetadataEnd(lines) ==
    IF \E i \in 2..Len(lines) : lines[i] = <<DELIM>>
    THEN CHOOSE i \in 2..Len(lines) :
            lines[i] = <<DELIM>> /\ \A j \in 2..(i - 1) : lines[j] # <<DELIM>>
    ELSE 0

NoInfo == PageInfo(<<>>, <<>>, 0, <<>>, None, <<>>)

\* the result of a call: the PageInfo, or ValueError raised by int()
parse_file_content(content, stem) ==
    LET lines == SplitLines(content)
        mend  == MetadataEnd(lines)
    IN  IF lines[1] = <<DELIM>> /\ mend > 0
        THEN LET hdr  == HeaderPairs(SubSeq(lines, 2, mend - 1))
                 body == Strip(JoinLines(SubSeq(lines, mend + 1, Len(lines))))
                 ver  == MetaGet(hdr, "confluence_version", <<"1">>)
             IN  IF ~IsIntStr(ver)
                 THEN [raised |-> TRUE, info |-> NoInfo]
                 ELSE [raised |-> FALSE,
                       info |-> PageInfo(MetaGet(hdr, "confluence_id", <<>>),
                                         MetaGet(hdr, "confluence_title", stem),
                                         StrToInt(ver),
                                         body,
                                         OrNone(MetaGet(hdr, "confluence_parent_id", None)),
                                         MetaGet(hdr, "confluence_space_key", SpaceKey))]
        ELSE [raised |-> FALSE,
              info |-> PageInfo(<<>>, stem, 1, content, None, SpaceKey)]

\* title.replace('/', '_').replace('\\', '_').replace(':', '_'), then keep
\* alphanumerics and '-', '_', '.', ' ', then strip
IsAlnumWord(t) == t \notin {"/", "\\", COLON, SP, NL, "-", "_", ".", "?", "*", DELIM}

SanitizeTok(t) == IF t \in {"/", "\\", COLON} THEN "_" ELSE t

RECURSIVE SanitizeSeq(_)
SanitizeSeq(s) ==
    IF s = <<>> THEN <<>>
    ELSE LET t == SanitizeTok(Head(s))
         IN  (IF IsAlnumWord(t) \/ t \in {"-", "_", ".", SP} THEN <<t>> ELSE <<>>)
             \o SanitizeSeq(Tail(s))

\* the name left untrimmed
sanitize_untrimmed(title) == SanitizeSeq(title)

sanitize_filename(title) == Strip(SanitizeSeq(title))

----------------------------------------------------------------------------
(* ConfluenceClient: text conversion *)

\* text.split('\n\n')
RECURSIVE SplitParas(_)
SplitParas(s) ==
    IF \E i \in 1..(Len(s) - 1) : s[i] = NL /\ s[i + 1] = NL
    THEN LET i == CHOOSE i \in 1..(Len(s) - 1) :
                      /\ s[i] = NL /\ s[i + 1] = NL
                      /\ \A j \in 1..(i - 1) : ~(s[j] = NL /\ s[j + 1] = NL)
         IN  <<SubSeq(s, 1, i - 1)>> \o SplitParas(SubSeq(s, i + 2, Len(s)))
    ELSE <<s>>

\* ''.join(f'<p>{p.strip()}</p>' for p in paragraphs if p.strip())
RECURSIVE WrapParas(_)
WrapParas(ps) ==
    IF ps = <<>> THEN <<>>
    ELSE (IF Strip(Head(ps)) = <<>> THEN <<>>
          ELSE <<"<p>">> \o Strip(Head(ps)) \o <<"</p>">>)
         \o WrapParas(Tail(ps))

\* the heading and emphasis substitutions act on '#' and '*', which no text of
\* the model contains
markdown_to_html(markdown_content) == WrapParas(SplitParas(markdown_content))

\* markdownify of a run of <p> elements: each paragraph followed by a blank line
RECURSIVE Markdownify(_)
Markdownify(h) ==
    IF h = <<>> THEN <<>>
    ELSE (IF Head(h) = "<p>" THEN <<>>
          ELSE IF Head(h) = "</p>" THEN <<NL, NL>>
          ELSE <<Head(h)>>)
         \o Markdownify(Tail(h))

html_to_markdown(html_content) == Strip(Markdownify(html_content))

----------------------------------------------------------------------------
(* MetadataStore: an insertion-ordered dict, page id -> title, version, file_path *)

StoreIds(st) == {st[i].id : i \in 1..Len(st)}

StoreIdx(st, page_id) == CHOOSE i \in 1..Len(st) : st[i].id = page_id

get_page_metadata(st, page_id) == st[StoreIdx(st, page_id)]

set_page_metadata(st, page_id, title, version, file_path) ==
    LET e == [id |-> page_id, title |-> title, version |-> version,
              file_path |-> file_path]
    IN  IF page_id \in StoreIds(st)
        THEN [st EXCEPT ![StoreIdx(st, page_id)] = e]
        ELSE Append(st, e)

\* json.load raises on a file that does not hold a whole JSON document
load_raises(d) == d.exists /\ d.partial

\* load(): the persisted mapping when the file exists, else the empty mapping
load(d) == IF d.exists THEN d.data ELSE <<>>

\* a save that writes only the entries whose file is there
save_existing(st) ==
    [exists |-> TRUE, partial |-> FALSE,
     data |-> SelectSeq(st, LAMBDA e : e.file_path \in DOMAIN files)]

\* save(): the whole mapping is written
save(st) == [exists |-> TRUE, partial |-> FALSE, data |-> st]

\* the file as an interrupted save() can leave it: untouched when save() had
\* not opened it yet, else truncated by open(..., 'w') and written in part
save_interrupted(d) == {d, [exists |-> TRUE, partial |-> TRUE, data |-> <<>>]}

----------------------------------------------------------------------------
(* Bounds and the small sets the inputs are drawn from *)

MaxUpdates == 1      \* update_page calls that the space accepts
MaxEdits == 1        \* user edits of the local directory while pushing
MaxStatusEdits == 3  \* user edits of the local directory under SpecStatus
MaxOthers == 1       \* versions saved by other writers of the space
MaxPushPaths == 2    \* explicit paths given to one push command

P1 == <<"p1">>
P2 == <<"p2">>
N1 == <<"n1">>

\* the order in which the space lists its pages, and the ids create_page hands out
PageOrder == <<P1, P2, N1>>
NewIds == <<N1>>

TitleA == <<"A">>
TitleB == <<"B">>
Titles == {TitleA, TitleB}

HtmlHello == <<"<p>", "hello", "</p>">>
HtmlWorld == <<"<p>", "world", "</p>">>

NewFileName == <<"new">>
NewFileText == <<"draft">>
EditedBody == <<"edited">>
VersionTexts == {<<"2">>, <<"x">>}

----------------------------------------------------------------------------
(* Paths.  A path names a file of the local directory by its stem; abs tells  *)
(* whether it is written as an absolute path below the working directory.   *)

PathRef(abs, name) == [abs |-> abs, name |-> name]

\* file_path.relative_to(Path.cwd()) raises ValueError for a relative path
RelativeToRaises(path) == ~path.abs

Exists(fs, name) == name \in DOMAIN fs

\* a file opened for appending instead of writing
AppendFile(fs, name, text) ==
    (name :> (IF name \in DOMAIN fs THEN fs[name] \o text ELSE text)) @@ fs

WriteFile(fs, name, text) == (name :> text) @@ fs

RemoveFile(fs, name) == [n \in (DOMAIN fs) \ {name} |-> fs[n]]

----------------------------------------------------------------------------
(* ConfluenceClient: the gateway *)

RECURSIVE ListIds(_, _)
ListIds(rem, order) ==
    IF order = <<>> THEN <<>>
    ELSE (IF Head(order) \in DOMAIN rem THEN <<Head(order)>> ELSE <<>>)
         \o ListIds(rem, Tail(order))

get_space_pages(rem) == ListIds(rem, PageOrder)

get_page_content(rem, page_id) ==
    PageInfo(page_id, rem[page_id].title, rem[page_id].version,
             html_to_markdown(rem[page_id].body), rem[page_id].parent_id,
             rem[page_id].space_key)

\* a check that only rejects a file that is ahead of the space
VersionConflictIfAhead(remote_version, current_version) ==
    remote_version < current_version

\* update_page_content: the check made on the version read by get_page_by_id
VersionConflict(remote_version, current_version) == remote_version # current_version

\* confluence.update_page: the page is rewritten as its next version
update_page(rem, page_id, title, html, parent_id) ==
    [rem EXCEPT ![page_id] =
        [@ EXCEPT !.title = title, !.body = html, !.version = @ + 1,
                  !.parent_id = IF parent_id = None THEN @ ELSE parent_id]]

\* the number of versions written by update_page so far: every page starts at
\* version 1 and every save adds one
RECURSIVE SumVersions(_, _)
SumVersions(rem, ids) ==
    IF ids = {} THEN 0
    ELSE LET id == CHOOSE x \in ids : TRUE
         IN  (rem[id].version - 1) + SumVersions(rem, ids \ {id})

Updates == SumVersions(remote, DOMAIN remote) - others

FreeIds == {i \in 1..Len(NewIds) : NewIds[i] \notin DOMAIN remote}

NextId == NewIds[CHOOSE i \in FreeIds : \A j \in FreeIds : i <= j]

\* confluence.create_page: a new page at version 1
create_page(rem, page_id, title, html, parent_id) ==
    (page_id :> [title |-> title, version |-> 1, body |-> html,
                 parent_id |-> parent_id, space_key |-> SpaceKey]) @@ rem

----------------------------------------------------------------------------
(* SyncManager: helpers *)

\* the outcome of one call: the new files and store, and whether it raised
save_page_locally(fs, st, page_info, abs) ==
    LET name == sanitize_filename(page_info.title)
        path == PathRef(abs, name)
        fs2  == WriteFile(fs, name, create_file_content(page_info))
    IN  IF RelativeToRaises(path)
        THEN [files |-> fs2, store |-> st, raised |-> TRUE]
        ELSE [files |-> fs2,
              store |-> set_page_metadata(st, page_info.id, page_info.title,
                                          page_info.version, name),
              raised |-> FALSE]

\* the loop of pull over the listed pages; the fetch of page number failAt
\* (0: none) raises
RECURSIVE PullLoop(_, _, _, _, _, _, _)
PullLoop(pages, k, failAt, fs, st, rem, abs) ==
    IF k > Len(pages) THEN [files |-> fs, store |-> st, raised |-> FALSE, gets |-> k - 1]
    ELSE IF k = failAt THEN [files |-> fs, store |-> st, raised |-> TRUE, gets |-> k]
    ELSE LET r == save_page_locally(fs, st, get_page_content(rem, pages[k]), abs)
         IN  IF r.raised
             THEN [files |-> r.files, store |-> r.store, raised |-> TRUE, gets |-> k]
             ELSE PullLoop(pages, k + 1, failAt, r.files, r.store, rem, abs)

\* pull(): the files and the persisted store it leaves
pull(fs, d, rem, failAt, abs) ==
    LET r == PullLoop(get_space_pages(rem), 1, failAt, fs, load(d), rem, abs)
    IN  [files |-> r.files, store |-> r.store, raised |-> r.raised, gets |-> r.gets,
         disk |-> IF r.raised THEN d ELSE save(r.store)]

RECURSIVE TrackedFrom(_, _)
TrackedFrom(st, fs) ==
    IF st = <<>> THEN <<>>
    ELSE (IF Exists(fs, Head(st).file_path)
          THEN <<PathRef(FALSE, Head(st).file_path)>> ELSE <<>>)
         \o TrackedFrom(Tail(st), fs)

\* every file of the local directory taken as a candidate
all_local_files(st, fs) ==
    LET names == CHOOSE f \in [1..Cardinality(DOMAIN fs) -> DOMAIN fs] :
                    \A i, j \in 1..Cardinality(DOMAIN fs) : i # j => f[i] # f[j]
    IN  [i \in 1..Cardinality(DOMAIN fs) |-> PathRef(FALSE, names[i])]

get_all_tracked_files(st, fs) == TrackedFrom(st, fs)

get_page_id_from_file(fs, name) ==
    LET r == parse_file_content(fs[name], name)
    IN  IF r.raised \/ r.info.id = <<>> THEN None ELSE r.info.id

is_file_modified(fs, name, meta) ==
    LET r == parse_file_content(fs[name], name)
    IN  IF r.raised THEN TRUE
        ELSE r.info.title # meta.title \/ r.info.version # meta.version

RECURSIVE DeletedFrom(_, _)
DeletedFrom(st, fs) ==
    IF st = <<>> THEN <<>>
    ELSE (IF Exists(fs, Head(st).file_path) THEN <<>> ELSE <<Head(st).file_path>>)
         \o DeletedFrom(Tail(st), fs)

\* the three lists status() prints
status_lists(fs, st) ==
    LET tracked(n) == LET pid == get_page_id_from_file(fs, n)
                      IN  pid # None /\ pid \in StoreIds(st)
    IN  [new      |-> {n \in DOMAIN fs : ~tracked(n)},
         modified |-> {n \in DOMAIN fs :
                          /\ tracked(n)
                          /\ is_file_modified(fs, n,
                                 get_page_metadata(st, get_page_id_from_file(fs, n)))},
         deleted  |-> DeletedFrom(st, fs)]

\* a status that drops the entries of missing files and saves the store
status_pruning(fs, d) ==
    LET kept == SelectSeq(load(d), LAMBDA e : Exists(fs, e.file_path))
    IN  [report |-> status_lists(fs, load(d)), files |-> fs, disk |-> save(kept),
         store |-> kept]

\* status() on a fresh SyncManager: what it prints and what it leaves behind
status(fs, d) ==
    [report |-> status_lists(fs, load(d)), files |-> fs, disk |-> d,
     store |-> load(d)]

----------------------------------------------------------------------------
(* State *)

NoCalls == [list |-> 0, get |-> 0, update |-> 0, create |-> 0]

NoCur == [info |-> NoInfo, path |-> PathRef(FALSE, <<>>)]

NoReport == [new |-> {}, modified |-> {}, deleted |-> <<>>]

Last(op, outcome, kind, name, id, seen) ==
    [op |-> op, outcome |-> outcome, kind |-> kind, name |-> name, id |-> id,
     seen |-> seen]

\* no push running, no conflict followed
NoHist == [mode |-> "", name |-> <<>>, stage |-> ""]

\* the conflict is no longer followed
HistReset(h) == [h EXCEPT !.name = <<>>, !.stage = ""]

\* no codec run
NoCodec == [stage |-> "", rec |-> NoInfo, text |-> <<>>, stem |-> <<>>,
            raised |-> FALSE, dec |-> NoInfo]

\* no run of a single component
NoHeap == [stage |-> "", dicts |-> <<>>, metadata |-> <<>>, pages |-> <<>>,
           before |-> <<>>]

NoName == [stage |-> "", title |-> <<>>, name |-> <<>>]

NoConfig == [stage |-> "", args |-> <<>>, file |-> <<>>, loaded |-> <<>>]

NoUnits == heap = NoHeap /\ safe_name = NoName /\ config = NoConfig

Page(title, version, body) ==
    [title |-> title, version |-> version, body |-> body, parent_id |-> None,
     space_key |-> SpaceKey]

Init ==
    /\ remote = (P1 :> Page(TitleA, 1, HtmlHello)) @@ (P2 :> Page(TitleB, 1, HtmlHello))
    /\ files = <<>>
    /\ disk = [exists |-> FALSE, partial |-> FALSE, data |-> <<>>]
    /\ store = <<>>
    /\ pc = "idle"
    /\ queue = <<>>
    /\ cur = NoCur
    /\ outcomes = <<>>
    /\ calls = NoCalls
    /\ report = NoReport
    /\ last = [op |-> "none", outcome |-> "", kind |-> "", name |-> <<>>, id |-> <<>>,
               seen |-> 0]
    /\ edits = 0
    /\ others = 0
    /\ absLocal \in BOOLEAN
    /\ hist = NoHist
    /\ codec = NoCodec
    /\ NoUnits

----------------------------------------------------------------------------
(* The environment: other writers of the space, and the user's editor *)

NoLast == Last("none", "", "", <<>>, <<>>, 0)

\* what is left of the last command's output once the environment has moved on
Forget ==
    IF pc = "idle"
    THEN /\ outcomes' = <<>>
         /\ calls' = NoCalls
         /\ report' = NoReport
         /\ last' = NoLast
    ELSE UNCHANGED <<outcomes, calls, report, last>>

\* somebody else saves a new version of a page
RemoteEdit ==
    \E id \in DOMAIN remote :
        /\ others < MaxOthers
        /\ remote' = [remote EXCEPT ![id] =
                        [@ EXCEPT !.body = HtmlWorld, !.version = @ + 1]]
        /\ others' = others + 1
        /\ Forget
        /\ hist' = HistReset(hist)
        /\ UNCHANGED <<files, disk, store, pc, queue, cur, edits, absLocal, codec, units>>

\* the text of a file with the value of one header line replaced
SetHeader(text, key, value) ==
    LET lines == SplitLines(text)
    IN  JoinLines([i \in 1..Len(lines) |->
                      IF LineKeyValue(lines[i]).has /\ LineKeyValue(lines[i]).key = <<key>>
                      THEN HeaderLine(key, value) ELSE lines[i]])

\* the text of a file with the body after the header replaced
SetBody(text, stem, body) ==
    LET r == parse_file_content(text, stem)
    IN  IF r.raised \/ r.info.id = <<>> THEN body
        ELSE create_file_content([r.info EXCEPT !.content = body])

\* one edit out of a budget of them
UserEdit(fs2, budget) ==
    /\ pc = "idle"
    /\ edits < budget
    /\ fs2 # files
    /\ files' = fs2
    /\ edits' = edits + 1
    /\ Forget
    /\ hist' = HistReset(hist)
    /\ UNCHANGED <<remote, disk, store, pc, queue, cur, others, absLocal, codec, units>>

UserNewFile(budget) == UserEdit(WriteFile(files, NewFileName, NewFileText), budget)

UserEditBody(budget) ==
    \E n \in DOMAIN files :
        UserEdit(WriteFile(files, n, SetBody(files[n], n, EditedBody)), budget)

UserEditVersion(budget) ==
    \E n \in DOMAIN files, v \in VersionTexts :
        UserEdit(WriteFile(files, n, SetHeader(files[n], "confluence_version", v)), budget)

UserEditTitle(budget) ==
    \E n \in DOMAIN files, t \in Titles :
        UserEdit(WriteFile(files, n, SetHeader(files[n], "confluence_title", t)), budget)

UserDelete(budget) == \E n \in DOMAIN files : UserEdit(RemoveFile(files, n), budget)

----------------------------------------------------------------------------
(* Commands.  Each command builds a SyncManager, which loads the store. *)

Bump(c, field) == [c EXCEPT ![field] = @ + 1]

\* SyncManager(config) raises: metadata_store.load() met a file it cannot read,
\* and the command ends before it has done anything
ConstructionRaises(op) ==
    /\ store' = <<>>
    /\ calls' = NoCalls
    /\ last' = Last(op, "raised", "load", <<>>, <<>>, 0)
    /\ queue' = <<>>
    /\ cur' = NoCur
    /\ outcomes' = <<>>
    /\ report' = NoReport
    /\ UNCHANGED <<remote, files, disk, pc, edits, others, absLocal, hist, codec, units>>

\* a completed pull turns a followed conflict into a pulled one
HistPulled(h, raised) ==
    IF ~raised /\ h.stage = "conflict" THEN [h EXCEPT !.stage = "pulled"] ELSE h

\* confluence-sync pull.  listOk: get_space_pages answers; failAt: the fetch
\* of that listed page raises (0: every fetch answers)
Pull ==
    /\ pc = "idle"
    /\ IF load_raises(disk)
       THEN ConstructionRaises("pull")
       ELSE
        /\ \E listOk \in BOOLEAN, failAt \in 0..Len(get_space_pages(remote)) :
            LET r == pull(files, disk, remote, failAt, absLocal)
            IN  IF listOk
                THEN /\ files' = r.files
                     /\ store' = load(r.disk)
                     /\ disk' = r.disk
                     /\ calls' = [NoCalls EXCEPT !.list = 1, !.get = r.gets]
                     /\ last' = Last("pull", IF r.raised THEN "raised" ELSE "ok",
                                     IF last.op = "pull" /\ last.kind \notin {"list", "load", "save"}
                                        /\ last.seen = 0
                                     THEN "repeat" ELSE "",
                                     <<>>, <<>>, failAt)
                     /\ hist' = HistPulled(hist, r.raised)
                ELSE /\ failAt = 0
                     /\ store' = load(disk)
                     /\ calls' = [NoCalls EXCEPT !.list = 1]
                     /\ last' = Last("pull", "raised", "list", <<>>, <<>>, 0)
                     /\ UNCHANGED <<files, disk, hist>>
        /\ queue' = <<>>
        /\ cur' = NoCur
        /\ outcomes' = <<>>
        /\ report' = NoReport
        /\ UNCHANGED <<remote, pc, edits, others, absLocal, codec, units>>

\* a pull whose loop completes and whose final save() is interrupted: the
\* files are written, the store file is left as the interruption found it, and
\* no success is reported
PullInterrupted ==
    /\ pc = "idle"
    /\ ~load_raises(disk)
    /\ LET r == pull(files, disk, remote, 0, absLocal)
       IN  /\ ~r.raised
           /\ files' = r.files
           /\ \E d \in save_interrupted(disk) :
                /\ disk' = d
                /\ store' = IF load_raises(d) THEN <<>> ELSE load(d)
           /\ calls' = [NoCalls EXCEPT !.list = 1, !.get = r.gets]
    /\ last' = Last("pull", "raised", "save", <<>>, <<>>, 0)
    /\ queue' = <<>>
    /\ cur' = NoCur
    /\ outcomes' = <<>>
    /\ report' = NoReport
    /\ UNCHANGED <<remote, pc, edits, others, absLocal, hist, codec, units>>

\* confluence-sync status
Status ==
    /\ pc = "idle"
    /\ IF load_raises(disk)
       THEN ConstructionRaises("status")
       ELSE
        /\ LET r == status(files, disk)
           IN  /\ report' = r.report
               /\ files' = r.files
               /\ disk' = r.disk
               /\ store' = r.store
        /\ calls' = NoCalls
        /\ last' = Last("status", "ok", "", <<>>, <<>>, 0)
        /\ queue' = <<>>
        /\ cur' = NoCur
        /\ outcomes' = <<>>
        /\ UNCHANGED <<remote, pc, edits, others, absLocal, hist, codec, units>>

\* some order of the files of a set
Listed(names) ==
    CHOOSE f \in [1..Cardinality(names) -> names] :
        \A i, j \in 1..Cardinality(names) : i # j => f[i] # f[j]

\* the explicit path lists of a push: up to MaxPushPaths existing files, all
\* written the same way
PathLists(names, abs) ==
    {[i \in 1..Cardinality(chosen) |-> PathRef(abs, Listed(chosen)[i])] :
        chosen \in {c \in SUBSET names : c # {} /\ Cardinality(c) <= MaxPushPaths}}

\* confluence-sync push [files]: the start of push()
\* the push starts: how it got its paths, and whether it retries the file
\* whose conflict a pull has followed
HistStart(h, mode, paths) ==
    [h EXCEPT !.mode = mode,
              !.stage = IF h.stage = "pulled"
                           /\ \E i \in 1..Len(paths) : paths[i].name = h.name
                        THEN "retry" ELSE @]

PushStart ==
    /\ pc = "idle"
    /\ IF load_raises(disk)
       THEN ConstructionRaises("push")
       ELSE
        /\ \E explicit \in BOOLEAN :
            IF explicit
            THEN \E abs \in BOOLEAN : \E paths \in PathLists(DOMAIN files, abs) :
                    /\ queue' = paths
                    /\ hist' = HistStart(hist, "explicit", paths)
            ELSE /\ queue' = get_all_tracked_files(load(disk), files)
                 /\ hist' = HistStart(hist, "tracked",
                                      get_all_tracked_files(load(disk), files))
        /\ store' = load(disk)
        /\ pc' = "push"
        /\ cur' = NoCur
        /\ outcomes' = <<>>
        /\ calls' = NoCalls
        /\ last' = Last("push_start", "", "", <<>>, <<>>, 0)
        /\ report' = NoReport
        /\ UNCHANGED <<remote, files, disk, edits, others, absLocal, codec, units>>

\* the increment forgotten
push_same_version(version) == version

\* the version recorded after an update
push_new_version(version) == version + 1

\* the store after _push_file has updated an existing page
push_update_store(st, page_info, name) ==
    set_page_metadata(st, page_info.id, page_info.title,
                      push_new_version(page_info.version), name)

\* the store after _push_file has created a page
push_create_store(st, result_id, result_version, page_info, name) ==
    set_page_metadata(st, result_id, page_info.title, result_version, name)

Outcome(path, outcome) == [name |-> path.name, outcome |-> outcome]

\* an exception other than ValueError leaves push(): the command ends, nothing
\* is saved
PushAbort(path, kind, id, seen) ==
    /\ pc' = "idle"
    /\ store' = load(disk)
    /\ queue' = <<>>
    /\ cur' = NoCur
    /\ outcomes' = <<>>
    /\ last' = Last("push_file", "abort", kind, path.name, id, seen)
    /\ hist' = IF hist.stage = "retry" THEN NoHist ELSE [hist EXCEPT !.mode = ""]

\* a loop that a conflict ends
PushStopAtConflict(path, outcome, kind, id, seen) ==
    /\ pc' = "push"
    /\ queue' = IF outcome = "conflict" THEN <<>> ELSE Tail(queue)
    /\ cur' = NoCur
    /\ outcomes' = Append(outcomes, Outcome(path, outcome))
    /\ last' = Last("push_file", outcome, kind, path.name, id, seen)
    /\ hist' = IF outcome = "conflict"
               THEN [hist EXCEPT !.name = path.name, !.stage = "conflict"]
               ELSE hist

\* the file is done and the loop goes on
PushNext(path, outcome, kind, id, seen) ==
    /\ pc' = "push"
    /\ queue' = Tail(queue)
    /\ cur' = NoCur
    /\ outcomes' = Append(outcomes, Outcome(path, outcome))
    /\ last' = Last("push_file", outcome, kind, path.name, id, seen)
    /\ hist' = IF outcome = "conflict"
               THEN [hist EXCEPT !.name = path.name, !.stage = "conflict"]
               ELSE IF hist.stage = "retry" /\ hist.name = path.name
               THEN HistReset(hist)
               ELSE hist

\* _push_file up to the answer of get_page_by_id (or of create_page)
PushFile ==
    /\ pc = "push"
    /\ queue # <<>>
    /\ LET path == Head(queue)
           r    == parse_file_content(files[path.name], path.name)
       IN  IF ~Exists(files, path.name)
           THEN /\ PushNext(path, "missing", "", <<>>, 0)
                /\ calls' = NoCalls
                /\ UNCHANGED <<remote, store>>
           ELSE IF r.raised
           THEN /\ PushNext(path, "error", "parse", <<>>, 0)
                /\ calls' = NoCalls
                /\ UNCHANGED <<remote, store>>
           ELSE IF r.info.id # <<>>
           THEN \E ok \in BOOLEAN :
                /\ calls' = Bump(NoCalls, "get")
                /\ UNCHANGED remote
                /\ IF ~ok \/ r.info.id \notin DOMAIN remote
                   THEN PushAbort(path, "update", r.info.id, 0)
                   ELSE IF VersionConflict(remote[r.info.id].version, r.info.version)
                   THEN /\ PushNext(path, "conflict", "update", r.info.id,
                                    remote[r.info.id].version)
                        /\ UNCHANGED store
                   ELSE /\ pc' = "push_write"
                        /\ cur' = [info |-> r.info, path |-> path]
                        /\ last' = Last("push_file", "checked", "update", path.name,
                                        r.info.id, remote[r.info.id].version)
                        /\ UNCHANGED <<queue, outcomes, store, hist>>
           ELSE \E ok \in BOOLEAN :
                /\ calls' = Bump(NoCalls, "create")
                /\ IF ~ok \/ FreeIds = {}
                   THEN /\ PushAbort(path, "create", <<>>, 0)
                        /\ UNCHANGED remote
                   ELSE /\ remote' = create_page(remote, NextId, r.info.title,
                                                 markdown_to_html(r.info.content),
                                                 r.info.parent_id)
                        /\ IF RelativeToRaises(path)
                           THEN /\ PushNext(path, "error", "create", NextId, 1)
                                /\ UNCHANGED store
                           ELSE /\ PushNext(path, "ok", "create", NextId, 1)
                                /\ store' = push_create_store(store, NextId, 1, r.info,
                                                              path.name)
    /\ UNCHANGED <<files, disk, report, edits, others, absLocal, codec, units>>

\* the rest of _push_file for an existing page: update_page, then the store
PushWrite ==
    /\ pc = "push_write"
    /\ LET path == cur.path
           info == cur.info
       IN  \E ok \in BOOLEAN :
           /\ calls' = Bump(NoCalls, "update")
           /\ IF ~ok \/ info.id \notin DOMAIN remote \/ Updates >= MaxUpdates
              THEN /\ PushAbort(path, "update", info.id, last.seen)
                   /\ UNCHANGED remote
              ELSE /\ remote' = update_page(remote, info.id, info.title,
                                            markdown_to_html(info.content),
                                            info.parent_id)
                   /\ IF RelativeToRaises(path)
                      THEN /\ PushNext(path, "error", "update", info.id, last.seen)
                           /\ UNCHANGED store
                      ELSE /\ PushNext(path, "ok", "update", info.id, last.seen)
                           /\ store' = push_update_store(store, info, path.name)
    /\ UNCHANGED <<files, disk, report, edits, others, absLocal, codec, units>>

\* what push() prints once the loop is over
PushMessage(outs) ==
    IF \E i \in 1..Len(outs) : outs[i].outcome = "conflict"
    THEN "conflicts" ELSE "success"

\* len(successful_pushes): the files for which _push_file returned True
Succeeded(outs) == Cardinality({i \in 1..Len(outs) : outs[i].outcome = "ok"})

\* the loop of push() is over: the message is printed
PushReport ==
    /\ pc = "push"
    /\ queue = <<>>
    /\ pc' = "push_save"
    /\ last' = Last("push_report", PushMessage(outcomes), "", <<>>, <<>>,
                    Succeeded(outcomes))
    /\ calls' = NoCalls
    /\ UNCHANGED <<remote, files, disk, store, queue, cur, outcomes, report, edits,
                   others, absLocal, hist, codec, units>>

\* the end of push(): after the message, the store is saved
PushEnd ==
    /\ pc = "push_save"
    /\ disk' = save(store)
    /\ pc' = "idle"
    /\ last' = Last("push_end", last.outcome, "", <<>>, <<>>, last.seen)
    /\ outcomes' = <<>>
    /\ calls' = NoCalls
    /\ hist' = [hist EXCEPT !.mode = ""]
    /\ UNCHANGED <<remote, files, store, queue, cur, report, edits, others, absLocal,
                   codec, units>>

\* the end of push() with the save() interrupted: the message has been
\* printed, the store file is left as the interruption found it
PushEndInterrupted ==
    /\ pc = "push_save"
    /\ \E d \in save_interrupted(disk) :
        /\ disk' = d
        /\ store' = IF load_raises(d) THEN <<>> ELSE load(d)
    /\ pc' = "idle"
    /\ last' = Last("push_end", "raised", "save", <<>>, <<>>, last.seen)
    /\ outcomes' = <<>>
    /\ calls' = NoCalls
    /\ hist' = [hist EXCEPT !.mode = ""]
    /\ UNCHANGED <<remote, files, queue, cur, report, edits, others, absLocal, codec, units>>

\* the whole tool, its user and the other writers of the space
Next ==
    \/ RemoteEdit
    \/ UserNewFile(MaxEdits)
    \/ UserDelete(MaxEdits)
    \/ Pull
    \/ Status
    \/ PushStart
    \/ PushFile
    \/ PushWrite
    \/ PushReport
    \/ PushEnd

Spec == Init /\ [][Next]_vars

\* pull and status on a directory the user edits by hand
NextStatus ==
    \/ UserNewFile(MaxStatusEdits)
    \/ UserEditBody(MaxStatusEdits)
    \/ UserEditVersion(MaxStatusEdits)
    \/ UserEditTitle(MaxStatusEdits)
    \/ UserDelete(MaxStatusEdits)
    \/ Pull
    \/ Status

SpecStatus == Init /\ [][NextStatus]_vars

\* the tool with its saves open to interruption
NextCrash ==
    \/ UserNewFile(MaxEdits)
    \/ UserDelete(MaxEdits)
    \/ Pull
    \/ PullInterrupted
    \/ Status
    \/ PushStart
    \/ PushFile
    \/ PushWrite
    \/ PushReport
    \/ PushEnd
    \/ PushEndInterrupted

SpecCrash == Init /\ [][NextCrash]_vars

----------------------------------------------------------------------------
(* The codec on its own: records to encode, texts to decode *)

FallbackStem == <<"note">>
OtherSpace == <<"OTHER">>

CodecIds == {<<>>, P1}
CodecTitles == {TitleA, <<"my", SP, "page">>, <<"a", COLON, "b">>, <<SP, "A">>}
CodecVersions == {0, 1, 12}
CodecBodies ==
    {<<"hello">>, <<"hello", NL, NL, "world">>, <<SP, "hello">>, <<"hello", NL>>,
     <<NL, "hello">>, <<>>, <<DELIM, NL, "hello">>}
CodecParents == {None, P2}
CodecSpaces == {SpaceKey, OtherSpace}

\* the PageInfo values handed to _create_file_content
CodecRecords ==
    {PageInfo(id, title, version, content, parent_id, space_key) :
        id \in CodecIds, title \in CodecTitles, version \in CodecVersions,
        content \in CodecBodies, parent_id \in CodecParents, space_key \in CodecSpaces}

\* the lines a hand-written header may hold for each field; <<>> is no line
IdLines == {<<>>, <<HeaderLine("confluence_id", P1)>>}
TitleLines == {<<>>, <<HeaderLine("confluence_title", TitleA)>>}
VersionLines ==
    {<<>>, <<HeaderLine("confluence_version", <<"2">>)>>,
     <<HeaderLine("confluence_version", <<"x">>)>>,
     <<HeaderLine("confluence_version", <<>>)>>}
ParentLines ==
    {<<>>, <<HeaderLine("confluence_parent_id", P2)>>,
     <<HeaderLine("confluence_parent_id", <<>>)>>}
SpaceLines == {<<>>, <<HeaderLine("confluence_space_key", OtherSpace)>>}
JunkLines == {<<>>, <<<<"junk">>>>}
TextBodies == {<<"hello">>, <<SP, "hello", NL>>}

\* the file texts handed to _parse_file_content
CodecTexts ==
    {JoinLines((IF open THEN <<<<DELIM>>>> ELSE <<>>)
               \o i \o t \o j \o v \o q \o k
               \o (IF closed THEN <<<<DELIM>>>> ELSE <<>>)
               \o <<<<>>, body>>) :
        open \in BOOLEAN, closed \in BOOLEAN, i \in IdLines, t \in TitleLines,
        j \in JunkLines, v \in VersionLines, q \in ParentLines, k \in SpaceLines,
        body \in TextBodies}

InitCodec ==
    /\ remote = (P1 :> Page(TitleA, 1, HtmlHello)) @@ (P2 :> Page(TitleB, 1, HtmlHello))
    /\ files = <<>>
    /\ disk = [exists |-> FALSE, partial |-> FALSE, data |-> <<>>]
    /\ store = <<>>
    /\ pc = "idle"
    /\ queue = <<>>
    /\ cur = NoCur
    /\ outcomes = <<>>
    /\ calls = NoCalls
    /\ report = NoReport
    /\ last = NoLast
    /\ edits = 0
    /\ others = 0
    /\ absLocal = TRUE
    /\ hist = NoHist
    /\ NoUnits
    /\ \/ \E r \in CodecRecords :
            codec = [NoCodec EXCEPT !.stage = "record", !.rec = r, !.stem = FallbackStem]
       \/ \E t \in CodecTexts :
            codec = [NoCodec EXCEPT !.stage = "text", !.text = t, !.stem = FallbackStem]

\* _create_file_content(page_info)
Encode ==
    /\ codec.stage = "record"
    /\ codec' = [codec EXCEPT !.stage = "encoded", !.text = create_file_content(codec.rec)]
    /\ UNCHANGED <<remote, files, disk, store, pc, queue, cur, outcomes, calls, report,
                   last, edits, others, absLocal, hist, units>>

\* _parse_file_content(content, file_path): of an encoded record, or of a text
Decode ==
    /\ codec.stage \in {"encoded", "text"}
    /\ LET r == parse_file_content(codec.text, codec.stem)
       IN  codec' = [codec EXCEPT
                        !.stage = IF codec.stage = "encoded" THEN "roundtrip" ELSE "decoded",
                        !.raised = r.raised, !.dec = r.info]
    /\ UNCHANGED <<remote, files, disk, store, pc, queue, cur, outcomes, calls, report,
                   last, edits, others, absLocal, hist, units>>

NextCodec ==
    \/ Encode
    \/ Decode

SpecCodec == InitCodec /\ [][NextCodec]_vars

----------------------------------------------------------------------------
(* The tool at rest, as a run of one of its parts or of another population of *)
(* the space finds it                                                        *)

tool == <<remote, files, disk, store, pc, queue, cur, outcomes, calls, report,
          last, edits, others, absLocal, hist, codec>>

AtRest ==
    /\ remote = (P1 :> Page(TitleA, 1, HtmlHello)) @@ (P2 :> Page(TitleB, 1, HtmlHello))
    /\ files = <<>>
    /\ disk = [exists |-> FALSE, partial |-> FALSE, data |-> <<>>]
    /\ store = <<>>
    /\ pc = "idle"
    /\ queue = <<>>
    /\ cur = NoCur
    /\ outcomes = <<>>
    /\ calls = NoCalls
    /\ report = NoReport
    /\ last = NoLast
    /\ edits = 0
    /\ others = 0
    /\ absLocal = TRUE
    /\ hist = NoHist
    /\ codec = NoCodec

----------------------------------------------------------------------------
(* The tool on a space whose pages are renamed and deleted by its other users *)

MaxDeletes == 1   \* pages deleted from the space

\* the titles a page is renamed to: one that names a new file, and one that
\* _sanitize_filename maps to the file of title A
RenameTitles == {<<"C">>, <<"A", "?">>}

\* somebody renames a page; a space holds no two pages of the same title
RemoteRename ==
    \E id \in DOMAIN remote, t \in RenameTitles :
        /\ pc = "idle"
        /\ others < MaxOthers
        /\ \A other \in DOMAIN remote : remote[other].title # t
        /\ remote' = [remote EXCEPT ![id] = [@ EXCEPT !.title = t, !.version = @ + 1]]
        /\ others' = others + 1
        /\ Forget
        /\ hist' = HistReset(hist)
        /\ UNCHANGED <<files, disk, store, pc, queue, cur, edits, absLocal, codec, units>>

\* somebody deletes a page that is still at its first version
RemoteDelete ==
    \E id \in DOMAIN remote :
        /\ pc = "idle"
        /\ Cardinality({P1, P2} \ DOMAIN remote) < MaxDeletes
        /\ remote[id].version = 1
        /\ remote' = [i \in (DOMAIN remote) \ {id} |-> remote[i]]
        /\ Forget
        /\ hist' = HistReset(hist)
        /\ UNCHANGED <<files, disk, store, pc, queue, cur, edits, others, absLocal,
                       codec, units>>

InitSpace ==
    /\ AtRest
    /\ NoUnits

NextSpace ==
    \/ RemoteRename
    \/ RemoteDelete
    \/ Pull
    \/ Status
    \/ PushStart
    \/ PushFile
    \/ PushWrite
    \/ PushReport
    \/ PushEnd

SpecSpace == InitSpace /\ [][NextSpace]_vars


----------------------------------------------------------------------------
(* MetadataStore in memory.  _metadata is a dict of dicts: the entry dicts   *)
(* live in heap.dicts and are named by their index, a mapping holds indices. *)

MaxDicts == 2          \* entry dicts allocated by set_page_metadata
MaxCallerWrites == 1   \* entry dicts the caller puts into the mapping it was handed

HeapVersions == {1, 2}

\* the entries a mapping shows to whoever reads through it
Deref(dicts, m) == [id \in DOMAIN m |-> dicts[m[id]]]

\* self._metadata.pop(page_id, None)
remove_page(m, page_id) == [id \in (DOMAIN m) \ {page_id} |-> m[id]]

\* self._metadata.copy(): a new mapping that holds the same entry dicts
get_all_pages(m) == [id \in DOMAIN m |-> m[id]]

InitHeap ==
    /\ AtRest
    /\ heap = [NoHeap EXCEPT !.stage = "store"]
    /\ safe_name = NoName
    /\ config = NoConfig

\* set_page_metadata(page_id, title, version, file_path): a new entry dict
SetPageMetadata ==
    \E id \in {P1, P2}, t \in Titles, v \in HeapVersions :
        /\ heap.stage = "store"
        /\ Len(heap.dicts) < MaxDicts
        /\ heap' = [heap EXCEPT
                      !.dicts = Append(@, [title |-> t, version |-> v,
                                           file_path |-> sanitize_filename(t)]),
                      !.metadata = (id :> (Len(heap.dicts) + 1)) @@ @]
        /\ UNCHANGED <<tool, safe_name, config>>

\* remove_page(page_id)
RemovePage ==
    \E id \in DOMAIN heap.metadata :
        /\ heap.stage = "store"
        /\ heap' = [heap EXCEPT !.metadata = remove_page(@, id)]
        /\ UNCHANGED <<tool, safe_name, config>>

\* a caller takes get_all_pages(); before: what the store shows at that time
GetAllPages ==
    /\ heap.stage = "store"
    /\ heap.metadata # <<>>
    /\ heap' = [heap EXCEPT !.stage = "snapshot",
                            !.pages = get_all_pages(heap.metadata),
                            !.before = Deref(heap.dicts, heap.metadata)]
    /\ UNCHANGED <<tool, safe_name, config>>

\* the caller: del pages[id]
CallerDelKey ==
    \E id \in DOMAIN heap.pages :
        /\ heap.stage = "snapshot"
        /\ heap' = [heap EXCEPT !.pages = remove_page(@, id)]
        /\ UNCHANGED <<tool, safe_name, config>>

\* the caller: pages[id] = {...}, a dict of its own
CallerSetKey ==
    \E id \in DOMAIN heap.pages, v \in HeapVersions :
        /\ heap.stage = "snapshot"
        /\ Len(heap.dicts) < MaxDicts + MaxCallerWrites
        /\ heap' = [heap EXCEPT
                      !.dicts = Append(@, [title |-> TitleA, version |-> v,
                                           file_path |-> sanitize_filename(TitleA)]),
                      !.pages = (id :> (Len(heap.dicts) + 1)) @@ @]
        /\ UNCHANGED <<tool, safe_name, config>>

\* the caller: pages[id]['version'] = v, pages[id]['title'] = t
CallerSetField ==
    \E id \in DOMAIN heap.pages :
        /\ heap.stage = "snapshot"
        /\ \/ \E v \in HeapVersions :
                heap' = [heap EXCEPT !.dicts[heap.pages[id]].version = v]
           \/ \E t \in Titles :
                heap' = [heap EXCEPT !.dicts[heap.pages[id]].title = t]
        /\ heap' # heap
        /\ UNCHANGED <<tool, safe_name, config>>

NextHeap ==
    \/ SetPageMetadata
    \/ RemovePage
    \/ GetAllPages
    \/ CallerDelKey
    \/ CallerSetKey
    \/ CallerSetField

SpecHeap == InitHeap /\ [][NextHeap]_vars

----------------------------------------------------------------------------
(* _sanitize_filename on its own: titles to name *)

MaxTitleLen == 3   \* tokens in a page title

\* letters and digits, the three characters that are replaced, the four that
\* are kept, whitespace, and characters that are dropped
TitleTokens == {"A", "1", "/", "\\", COLON, "-", "_", ".", SP, NL, "?", "*"}

RECURSIVE SeqsUpTo(_, _)
SeqsUpTo(S, n) ==
    IF n = 0 THEN {<<>>}
    ELSE SeqsUpTo(S, n - 1)
         \cup {Append(q, t) : q \in {x \in SeqsUpTo(S, n - 1) : Len(x) = n - 1}, t \in S}

PageTitles == SeqsUpTo(TitleTokens, MaxTitleLen)

InitName ==
    /\ AtRest
    /\ heap = NoHeap
    /\ config = NoConfig
    /\ \E t \in PageTitles : safe_name = [NoName EXCEPT !.stage = "title", !.title = t]

\* safe_filename = self._sanitize_filename(page_info.title)
Sanitize ==
    /\ safe_name.stage = "title"
    /\ safe_name' = [safe_name EXCEPT !.stage = "named",
                                      !.name = sanitize_filename(safe_name.title)]
    /\ UNCHANGED <<tool, heap, config>>

SpecName == InitName /\ [][Sanitize]_vars

----------------------------------------------------------------------------
(* Config: save_interactive_config writes YAML, load reads it back *)

QUOTE  == "'"
INDENT == "  "
DASH   == "-"

\* the plain scalars that YAML reads as something other than a string
YamlBools == {<<"true">>, <<"false">>, <<"yes">>, <<"no">>, <<"on">>, <<"off">>}
YamlNulls == {<<"null">>, <<"~">>, <<>>}

\* the tag the resolver gives a plain scalar
resolve(s) ==
    IF s \in YamlNulls THEN "null"
    ELSE IF s \in YamlBools THEN "bool"
    ELSE IF IsIntStr(s) THEN "int"
    ELSE "str"

\* a plain scalar may not begin with an indicator, begin or end with a space,
\* or hold ': '
PlainAllowed(s) ==
    /\ s # <<>>
    /\ s[1] \notin {QUOTE, "*", "?", "#", "&", "!", DASH, COLON, SP, NL}
    /\ ~IsSpace(s[Len(s)])
    /\ \A i \in 1..(Len(s) - 1) : ~(s[i] = COLON /\ s[i + 1] = SP)

\* a quote inside a single-quoted scalar is written twice
RECURSIVE DoubleQuotes(_)
DoubleQuotes(s) ==
    IF s = <<>> THEN <<>>
    ELSE (IF Head(s) = QUOTE THEN <<QUOTE, QUOTE>> ELSE <<Head(s)>>)
         \o DoubleQuotes(Tail(s))

RECURSIVE UndoubleQuotes(_)
UndoubleQuotes(s) ==
    IF s = <<>> THEN <<>>
    ELSE IF Len(s) >= 2 /\ s[1] = QUOTE /\ s[2] = QUOTE
    THEN <<QUOTE>> \o UndoubleQuotes(SubSeq(s, 3, Len(s)))
    ELSE <<Head(s)>> \o UndoubleQuotes(Tail(s))

\* every string written as it is
represent_plain(s) == s

\* yaml.dump of a str: plain when that reads back as the same string, else
\* single-quoted
represent_str(s) ==
    IF PlainAllowed(s) /\ resolve(s) = "str" THEN s
    ELSE <<QUOTE>> \o DoubleQuotes(s) \o <<QUOTE>>

\* yaml.safe_load of a scalar: its tag and, for a string, its value
construct_scalar(t) ==
    IF Len(t) >= 2 /\ t[1] = QUOTE /\ t[Len(t)] = QUOTE
    THEN [tag |-> "str", val |-> UndoubleQuotes(SubSeq(t, 2, Len(t) - 1))]
    ELSE [tag |-> resolve(t), val |-> t]

\* the line 'key: value' at a nesting depth
YamlLine(depth, key, text) ==
    (IF depth = 1 THEN <<INDENT>> ELSE <<>>) \o <<key, COLON, SP>> \o text

\* yaml.dump(config_data, default_flow_style=False, indent=2): keys sorted
yaml_dump(url, api_token, space_key, local_path, username) ==
    <<<<"confluence", COLON>>,
      YamlLine(1, "api_token", represent_str(api_token)),
      YamlLine(1, "space_key", represent_str(space_key)),
      YamlLine(1, "url", represent_str(url))>>
    \o (IF username # None /\ username # <<>>
        THEN <<YamlLine(1, "username", represent_str(username))>> ELSE <<>>)
    \o <<<<"ignore_patterns", COLON>>,
         <<DASH, SP>> \o represent_str(<<"*", ".tmp">>),
         <<DASH, SP>> \o represent_str(<<".git/", "*">>),
         <<DASH, SP>> \o represent_str(<<".DS_Store">>),
         YamlLine(0, "local_path", represent_str(local_path))>>

\* the scalar of the line 'key: ...' at a depth; absent when there is no such line
YamlGet(lines, depth, key) ==
    LET head == YamlLine(depth, key, <<>>)
        hit(i) == /\ Len(lines[i]) >= Len(head)
                  /\ SubSeq(lines[i], 1, Len(head)) = head
    IN  IF \E i \in 1..Len(lines) : hit(i)
        THEN LET i == CHOOSE i \in 1..Len(lines) : hit(i)
             IN  construct_scalar(SubSeq(lines[i], Len(head) + 1, Len(lines[i])))
        ELSE [tag |-> "absent", val |-> <<>>]

\* Path(text): empty and '.' components and a trailing '/' are dropped
RECURSIVE PathParts(_)
PathParts(s) ==
    LET i == IndexOf(s, "/")
        first == IF i = 0 THEN s ELSE SubSeq(s, 1, i - 1)
        rest  == IF i = 0 THEN <<>> ELSE PathParts(SubSeq(s, i + 1, Len(s)))
    IN  (IF first = <<>> \/ first = <<".">> THEN <<>> ELSE <<first>>) \o rest

PathOf(s) == [abs |-> s # <<>> /\ s[1] = "/", parts |-> PathParts(s)]

\* SyncConfig(**config_data): a str field takes a string, username may be
\* missing, local_path is made a Path; anything else is a validation error
SyncConfig(lines) ==
    LET url   == YamlGet(lines, 1, "url")
        token == YamlGet(lines, 1, "api_token")
        space == YamlGet(lines, 1, "space_key")
        user  == YamlGet(lines, 1, "username")
        path  == YamlGet(lines, 0, "local_path")
    IN  IF /\ url.tag = "str" /\ token.tag = "str" /\ space.tag = "str"
           /\ user.tag \in {"str", "absent", "null"}
           /\ path.tag \in {"str", "absent"}
        THEN [raised |-> FALSE, url |-> url.val, api_token |-> token.val,
              space_key |-> space.val,
              username |-> IF user.tag = "str" THEN user.val ELSE None,
              local_path |-> IF path.tag = "str" THEN PathOf(path.val)
                             ELSE PathOf(<<"docs">>)]
        ELSE [raised |-> TRUE, url |-> <<>>, api_token |-> <<>>, space_key |-> <<>>,
              username |-> None, local_path |-> PathOf(<<>>)]

ConfigUrls == {<<"https", COLON, "//wiki.example.com">>, <<"wiki">>}
ConfigTokens ==
    {<<"tok">>, <<"1", "2">>, <<"true">>, <<>>, <<"a", COLON, SP, "b">>, <<SP, "tok">>,
     <<"*", "x">>, <<"it", QUOTE, "s">>}
ConfigSpaces == {SpaceKey, <<"1">>, <<"null">>, <<"~">>}
ConfigPaths ==
    {<<"docs">>, <<"docs", "/">>, <<".", "/", "docs">>, <<"/", "srv", "/", "docs">>,
     <<>>, <<"my", SP, "docs">>}
ConfigUsers == {None, <<>>, <<"bob">>, <<"1">>, <<"no">>}

InitConfig ==
    /\ AtRest
    /\ heap = NoHeap
    /\ safe_name = NoName
    /\ \E u \in ConfigUrls, t \in ConfigTokens, k \in ConfigSpaces, p \in ConfigPaths,
          n \in ConfigUsers :
        config = [NoConfig EXCEPT
                    !.stage = "args",
                    !.args = [url |-> u, api_token |-> t, space_key |-> k,
                              local_path |-> p, username |-> n]]

\* save_interactive_config(url, api_token, space_key, local_path, username)
SaveInteractiveConfig ==
    /\ config.stage = "args"
    /\ config' = [config EXCEPT
                    !.stage = "saved",
                    !.file = yaml_dump(config.args.url, config.args.api_token,
                                       config.args.space_key, config.args.local_path,
                                       config.args.username)]
    /\ UNCHANGED <<tool, heap, safe_name>>

\* load() of the file that was written
ConfigLoad ==
    /\ config.stage = "saved"
    /\ config' = [config EXCEPT !.stage = "loaded", !.loaded = SyncConfig(config.file)]
    /\ UNCHANGED <<tool, heap, safe_name>>

NextConfig ==
    \/ SaveInteractiveConfig
    \/ ConfigLoad

SpecConfig == InitConfig /\ [][NextConfig]_vars

----------------------------------------------------------------------------
(* Properties *)

\* a step of the running push that handles the file at the head of the queue
PushFileStep == pc = "push" /\ queue # <<>> /\ (pc' # pc \/ outcomes' # outcomes)

HeadName == Head(queue).name

HeadParse == parse_file_content(files[HeadName], HeadName)

\* the file at the head of the queue decodes to the identity of a page
HeadHasId ==
    /\ pc = "push" /\ queue # <<>>
    /\ Exists(files, HeadName)
    /\ ~HeadParse.raised
    /\ HeadParse.info.id \in DOMAIN remote

\* the file at the head of the queue decodes to no identity
HeadHasNoId ==
    /\ pc = "push" /\ queue # <<>>
    /\ Exists(files, HeadName)
    /\ ~HeadParse.raised
    /\ HeadParse.info.id = <<>>

\* C1: when the version of page X in the space differs from the version decoded
\* from the file, and the gateway answers, the push of that file is recorded as
\* a conflict, update_page is not called, and the space, the local files, the
\* store and the saved store are left as they were.
C1_ConflictLeavesAllUntouched ==
    [][(/\ HeadHasId
        /\ remote[HeadParse.info.id].version # HeadParse.info.version
        /\ PushFileStep
        /\ last'.outcome # "abort")
       => /\ last'.outcome = "conflict"
          /\ outcomes' = Append(outcomes, [name |-> HeadName, outcome |-> "conflict"])
          /\ pc' = "push"
          /\ calls'.update = 0
          /\ remote' = remote
          /\ files' = files
          /\ store' = store
          /\ disk' = disk]_vars

C1_Witness ==
    /\ pc = "push"
    /\ last.op = "push_file" /\ last.outcome = "conflict"
    /\ last.id \in StoreIds(store)
    /\ outcomes # <<>>

\* C2: update_page is only ever applied to the version that the file decodes
\* to: no save by another writer lands between the check and the write.
C2_WriteOnCheckedVersion ==
    [][(pc = "push_write" /\ pc' = "push" /\ remote' # remote)
       => remote[cur.info.id].version = cur.info.version]_vars

StoreNeverDecreases(old, new) ==
    \A i \in 1..Len(old) :
        /\ old[i].id \in StoreIds(new)
        /\ get_page_metadata(new, old[i].id).version >= old[i].version

\* C3: a push that updates an existing page leaves the store at the version the
\* gateway showed before the write plus one; and a version in the store (in the
\* saved file, and in memory while a command runs) never decreases.
C3_VersionAdvancesByOne ==
    [][/\ (pc = "push_write" /\ last'.op = "push_file" /\ last'.outcome = "ok")
          => /\ cur.info.id \in StoreIds(store')
             /\ get_page_metadata(store', cur.info.id).version = last.seen + 1
       /\ StoreNeverDecreases(load(disk), load(disk'))
       /\ (pc # "idle" /\ last'.outcome # "abort")
          => StoreNeverDecreases(store, store')]_vars

C3_Witness ==
    /\ pc = "push"
    /\ last.op = "push_file" /\ last.outcome = "ok" /\ last.kind = "update"
    /\ last.id \in StoreIds(store)
    /\ get_page_metadata(store, last.id).version = last.seen + 1
    /\ last.seen >= 1

\* C4: a pull in which the fetch of one listed page fails still writes the file
\* and the store entry of every other listed page, and saves the store.
C4_PullSkipsFailedFetch ==
    (last.op = "pull" /\ last.kind # "list" /\ last.seen >= 1 /\ absLocal)
    => LET pages == get_space_pages(remote)
       IN  /\ disk.exists
           /\ \A k \in 1..Len(pages) :
                k # last.seen
                => /\ pages[k] \in StoreIds(load(disk))
                   /\ Exists(files, sanitize_filename(remote[pages[k]].title))

\* C5: no failure of one candidate ends the push: the command only ends after
\* the last candidate, by saving the store as it then is.
C5_FailureNeverAborts ==
    [][(pc # "idle" /\ pc' = "idle")
       => (pc = "push_save" /\ queue = <<>> /\ disk' = save(store))]_vars

\* C6: after a push has updated an existing page, the version decoded from the
\* file equals the version in the store, and status does not list the file as
\* modified.
C6_FileVersionBumped ==
    (pc = "push" /\ last.op = "push_file" /\ last.outcome = "ok"
        /\ last.kind = "update")
    => /\ ~parse_file_content(files[last.name], last.name).raised
       /\ parse_file_content(files[last.name], last.name).info.version
            = get_page_metadata(store, last.id).version
       /\ last.name \notin status_lists(files, store).modified

\* C7: pushing a file that decodes to no identity, when the gateway answers,
\* makes one create call and no update call, and adds one store entry: the id
\* and version the gateway returned, the title and the path of the file.
C7_CreateInsertsEntry ==
    [][(HeadHasNoId /\ PushFileStep /\ last'.outcome # "abort")
       => /\ calls'.create = 1
          /\ calls'.update = 0
          /\ pc' = "push"
          /\ NextId \notin StoreIds(store)
          /\ store' = Append(store, [id |-> NextId,
                                     title |-> HeadParse.info.title,
                                     version |-> remote'[NextId].version,
                                     file_path |-> HeadName])]_vars

\* C8: a pull that follows a pull, with the gateway answering every call of both
\* and nothing happening in between, leaves every local file, the saved store
\* and the store in memory as the first pull left them.
C8_PullIdempotent ==
    [][(/\ pc = "idle"
        /\ last.op = "pull" /\ last.kind # "list" /\ last.seen = 0
        /\ last'.op = "pull" /\ last'.kind # "list" /\ last'.seen = 0)
       => (files' = files /\ disk' = disk /\ store' = store)]_vars

C8_Witness ==
    /\ last.op = "pull" /\ last.outcome = "ok" /\ last.kind = "repeat"
    /\ Len(load(disk)) >= 2
    /\ \A i \in 1..Len(load(disk)) : Exists(files, load(disk)[i].file_path)

\* decode as the codec is specified: a header line that cannot be read is
\* dropped and the field takes its default
SpecDecode(content, stem) ==
    LET lines == SplitLines(content)
        mend  == MetadataEnd(lines)
        hdr   == HeaderPairs(SubSeq(lines, 2, mend - 1))
        ver   == MetaGet(hdr, "confluence_version", <<"1">>)
    IN  IF lines[1] = <<DELIM>> /\ mend > 0
        THEN [id |-> MetaGet(hdr, "confluence_id", <<>>),
              title |-> MetaGet(hdr, "confluence_title", stem),
              version |-> IF IsIntStr(ver) THEN StrToInt(ver) ELSE 1]
        ELSE [id |-> <<>>, title |-> stem, version |-> 1]

\* C9: status lists a file as new iff its decoded identity is empty or not in
\* the store, as modified iff its identity is in the store and its decoded
\* title or version differs from the stored one, and lists an entry as deleted
\* iff its file does not exist.
C9_StatusExact ==
    (last.op = "status")
    => LET st == load(disk)
           dec(n) == SpecDecode(files[n], n)
       IN  /\ \A n \in DOMAIN files :
                (n \in report.new) <=> (dec(n).id = <<>> \/ dec(n).id \notin StoreIds(st))
           /\ \A n \in DOMAIN files :
                (n \in report.modified)
                <=> /\ dec(n).id \in StoreIds(st)
                    /\ \/ dec(n).title # get_page_metadata(st, dec(n).id).title
                       \/ dec(n).version # get_page_metadata(st, dec(n).id).version
           /\ \A i \in 1..Len(st) :
                (\E j \in 1..Len(report.deleted) : report.deleted[j] = st[i].file_path)
                <=> ~Exists(files, st[i].file_path)

\* C10: status changes neither the store in memory (it is the loaded one), nor
\* the saved store, nor a local file, nor the space, and calls the gateway not
\* once.
C10_StatusReadOnly ==
    [][(pc = "idle" /\ last'.op = "status")
       => /\ store' = load(disk)
          /\ disk' = disk
          /\ files' = files
          /\ remote' = remote
          /\ calls' = NoCalls]_vars

C10_Witness ==
    /\ last.op = "status"
    /\ report.deleted # <<>>
    /\ report.modified # {}

\* what the push of one path can answer, given only the file, the space and the
\* way the path is written
OutcomesAlone(path) ==
    LET r == parse_file_content(files[path.name], path.name)
        written == IF RelativeToRaises(path) THEN "error" ELSE "ok"
    IN  IF ~Exists(files, path.name) THEN {"missing"}
        ELSE IF r.raised THEN {"error"}
        ELSE IF r.info.id = <<>> THEN {written, "abort"}
        ELSE IF r.info.id \notin DOMAIN remote THEN {"abort"}
        ELSE IF remote[r.info.id].version # r.info.version THEN {"conflict", "abort"}
        ELSE {"checked", "abort"}

HasConflict(outs) == \E i \in 1..Len(outs) : outs[i].outcome = "conflict"

C12_ConflictRecoverable ==
    [][/\ (/\ hist.stage = "retry" /\ PushFileStep /\ HeadName = hist.name
           /\ last'.outcome # "abort")
          => last'.outcome = "checked"
       /\ (/\ hist.stage = "retry" /\ pc = "push_write" /\ pc' # pc
           /\ cur.path.name = hist.name /\ last'.outcome # "abort")
          => last'.outcome = "ok"]_vars

\* C13: decoding the text that encodes a record gives back the record:
\* identity, title, version, body, parent and space.
C13_RoundTrip ==
    (codec.stage = "roundtrip") => (~codec.raised /\ codec.dec = codec.rec)

\* C14: decode returns a record for every text; it never raises.
C14_DecodeNeverRaises ==
    (codec.stage = "decoded") => ~codec.raised

\* the text opens with the delimiter line and a later line closes the header
HasHeader(text) ==
    LET lines == SplitLines(text)
    IN  lines[1] = <<DELIM>> /\ \E i \in 2..Len(lines) : lines[i] = <<DELIM>>

\* no line of the header gives a value to the key
KeyMissing(text, key) ==
    LET lines == SplitLines(text)
    IN  \A i \in 2..(MetadataEnd(lines) - 1) :
            ~(LineKeyValue(lines[i]).has /\ LineKeyValue(lines[i]).key = <<key>>)

StorePaths(st) == {st[i].file_path : i \in 1..Len(st)}

\* C16: a push without paths takes as candidates exactly the paths of the
\* saved store's entries whose file exists, and makes a create call only for
\* a file that an entry of the store names.
C16_TrackedOnly ==
    [][/\ (pc = "idle" /\ hist'.mode = "tracked")
          => {queue'[i].name : i \in 1..Len(queue')}
                = {n \in StorePaths(load(disk)) : Exists(files, n)}
       /\ (hist.mode = "tracked" /\ calls'.create = 1)
          => (pc = "push" /\ HeadName \in StorePaths(load(disk)))]_vars

C16_Witness ==
    /\ pc = "push"
    /\ hist.mode = "tracked"
    /\ last.op = "push_start"
    /\ queue # <<>>
    /\ Exists(files, NewFileName)
    /\ NewFileName \notin StorePaths(load(disk))
    /\ \A i \in 1..Len(queue) : queue[i].name # NewFileName

\* a command starts
CommandStarts == pc = "idle" /\ last'.op \in {"pull", "status", "push", "push_start"}

\* C17: a command that finds no store file, or one it cannot read, is built
\* all the same and works on the empty mapping: status then lists every file as
\* new and nothing as deleted, and pull runs.
C17_LoadNeverFails ==
    [][(CommandStarts /\ (~disk.exists \/ load_raises(disk)))
       => /\ last'.kind # "load"
          /\ last'.op = "status"
                => (report'.new = DOMAIN files /\ report'.deleted = <<>>)
          /\ (last'.op = "pull" /\ last'.outcome = "ok")
                => StoreIds(load(disk')) = DOMAIN remote]_vars

\* the mapping that the save of the step was writing
SavedMapping ==
    IF pc = "push_save" THEN store ELSE pull(files, disk, remote, 0, absLocal).store

\* C18: after an interrupted save, load reads the whole previous mapping or the
\* whole new one, never a file written in part.
C18_SaveAtomic ==
    [][(last'.kind = "save" /\ last'.outcome = "raised" /\ last' # last)
       => /\ ~load_raises(disk')
          /\ load(disk') \in {load(disk), SavedMapping}]_vars

\* C19: when a pull or a push has reported success, the store file holds the
\* store of that operation.
C19_SavedBeforeSuccess ==
    /\ (last.op = "pull" /\ last.outcome = "ok") => disk = save(store)
    /\ (last.op = "push_report" /\ last.outcome = "success") => disk = save(store)

\* C20: the summary of a push accounts for every candidate, and reports the
\* push as successful only when every candidate succeeded: none conflicted and
\* none failed.
C20_SummaryAccounts ==
    (last.op = "push_report")
    => /\ Len(outcomes) >= last.seen
       /\ (last.outcome = "success")
            => /\ last.seen = Len(outcomes)
               /\ \A i \in 1..Len(outcomes) : outcomes[i].outcome = "ok"

\* the entries of the saved store whose file is not there
MissingEntries(d, fs) == SelectSeq(load(d), LAMBDA e : ~Exists(fs, e.file_path))

\* C21: no step of pull, push or status removes a local file, and none drops
\* or alters an entry of the saved store whose file is missing; status lists
\* every such entry as deleted.
C21_NeverDeletes ==
    [][/\ (edits' = edits) => (DOMAIN files \subseteq DOMAIN files')
       /\ \A i \in 1..Len(load(disk)) :
            ~Exists(files', load(disk)[i].file_path)
            => /\ load(disk)[i].id \in StoreIds(load(disk'))
               /\ get_page_metadata(load(disk'), load(disk)[i].id) = load(disk)[i]
       /\ (pc = "idle" /\ last'.op = "status")
          => report'.deleted = [i \in 1..Len(MissingEntries(disk, files)) |->
                                   MissingEntries(disk, files)[i].file_path]]_vars

\* a push has run to its end, and a status after it, while the file of an
\* entry is missing
C21_Witness ==
    /\ last.op = "status"
    /\ report.deleted # <<>>
    /\ Updates >= 1
    /\ Len(load(disk)) >= 2

\* C22: whatever a caller does to the mapping that get_all_pages handed out,
\* changing a field of one of its entries included, the store goes on showing
\* (and would save) the entries it showed when the mapping was taken.
C22_SnapshotIsolated ==
    (heap.stage = "snapshot") => Deref(heap.dicts, heap.metadata) = heap.before

\* C23: the name made from a title holds only letters, digits, '-', '_', '.'
\* and spaces, so none of '/', '\' and ':', and neither begins nor ends with
\* whitespace.
C23_FilenameSafe ==
    (safe_name.stage = "named")
    => LET name == safe_name.name
       IN  /\ \A i \in 1..Len(name) :
                /\ IsAlnumWord(name[i]) \/ name[i] \in {"-", "_", ".", SP}
                /\ name[i] \notin {"/", "\\", COLON}
           /\ name # <<>> => (~IsSpace(name[1]) /\ ~IsSpace(name[Len(name)]))

\* a title with a separator and surrounding whitespace has been named
C23_Witness ==
    /\ safe_name.stage = "named"
    /\ safe_name.title = <<SP, "/", NL>>
    /\ safe_name.name = <<"_">>

\* C24: load() of the file that save_interactive_config wrote gives back the
\* url, the api_token and the space_key that were saved, the saved local_path
\* as a Path, and the saved username, or none when none (or an empty one) was
\* given.
C24_ConfigRoundTrip ==
    (config.stage = "loaded")
    => /\ ~config.loaded.raised
       /\ config.loaded.url = config.args.url
       /\ config.loaded.api_token = config.args.api_token
       /\ config.loaded.space_key = config.args.space_key
       /\ config.loaded.local_path = PathOf(config.args.local_path)
       /\ config.loaded.username
            = IF config.args.username \in {None, <<>>} THEN None ELSE config.args.username

\* values that YAML would read as a number, a null and a boolean have been
\* saved and loaded
C24_Witness ==
    /\ config.stage = "loaded"
    /\ config.args.api_token = <<"1", "2">>
    /\ config.args.space_key = <<"null">>
    /\ config.args.username = <<"no">>
    /\ config.loaded.username = <<"no">>
    /\ config.loaded.api_token = <<"1", "2">>

\* a push has created a page from the file at the head of the queue: the space
\* holds a page with one of the ids create_page hands out and the title of the
\* file, and the store names the file as the file of that page
CreatedFromHead ==
    \E i \in 1..Len(NewIds) :
        /\ NewIds[i] \in DOMAIN remote
        /\ remote[NewIds[i]].title = HeadParse.info.title
        /\ NewIds[i] \in StoreIds(store)
        /\ get_page_metadata(store, NewIds[i]).file_path = HeadName

\* C25: once a push has created the page of a file without identity, a second
\* push of that file, not edited since, makes no create call and adds no store
\* entry.
C25_NoDoubleCreate ==
    [][(HeadHasNoId /\ CreatedFromHead /\ PushFileStep)
       => /\ calls'.create = 0
          /\ Len(store') = Len(store)]_vars

\* the page of the file at the head of the queue was last written by a push of
\* that file, which the store has recorded: nobody else has ever written to the
\* space, the page is past its first version and the store holds that version
\* for that file
PushedBefore ==
    /\ others = 0
    /\ HeadParse.info.id \in StoreIds(store)
    /\ get_page_metadata(store, HeadParse.info.id).file_path = HeadName
    /\ get_page_metadata(store, HeadParse.info.id).version
         = remote[HeadParse.info.id].version
    /\ remote[HeadParse.info.id].version >= 2

\* C26: after a push of a tracked file has succeeded, a second push of that
\* file, with the file not edited and nobody else writing to the space, is
\* not reported as a version conflict.
C26_RepeatedPushNoConflict ==
    [][(HeadHasId /\ PushedBefore /\ PushFileStep /\ last'.outcome # "abort")
       => last'.outcome # "conflict"]_vars

\* the file of a store entry is there and decodes to the entry
EntrySynced(fs, e) ==
    /\ Exists(fs, e.file_path)
    /\ LET r == parse_file_content(fs[e.file_path], e.file_path)
       IN  /\ ~r.raised
           /\ r.info.id = e.id
           /\ r.info.title = e.title
           /\ r.info.version = e.version

\* C27: right after a pull that has completed, the file of every store entry
\* exists and decodes to the identity, title and version of the entry, and
\* status would list no file as modified and no entry as deleted.
C27_PullLeavesSynced ==
    (last.op = "pull" /\ last.outcome = "ok")
    => /\ \A i \in 1..Len(load(disk)) : EntrySynced(files, load(disk)[i])
       /\ status_lists(files, load(disk)).modified = {}
       /\ status_lists(files, load(disk)).deleted = <<>>

\* C28: right after a pull that has completed, the store holds an entry for
\* exactly the pages that the space lists.
C28_PullPrunesStore ==
    (last.op = "pull" /\ last.outcome = "ok")
    => StoreIds(load(disk)) = DOMAIN remote

\* C29: right after a pull, every page whose fetch has answered has its file,
\* at the path made from its title, holding exactly the encoded fetched record,
\* whatever the file held before, and its store entry holding the fetched
\* version.
C29_PullOverwrites ==
    (last.op = "pull" /\ last.kind \notin {"list", "load", "save"})
    => LET pages == get_space_pages(remote)
       IN  \A k \in 1..calls.get :
            k # last.seen
            => LET info == get_page_content(remote, pages[k])
                   name == sanitize_filename(info.title)
               IN  /\ Exists(files, name)
                   /\ files[name] = create_file_content(info)
                   /\ info.id \in StoreIds(store)
                   /\ get_page_metadata(store, info.id).version = info.version

\* no two entries of a store name the same file
PathsUnique(st) ==
    \A i, j \in 1..Len(st) : i # j => st[i].file_path # st[j].file_path

\* C30: no two entries of the store, in memory or saved, name the same file,
\* and the list of a push without paths names no file twice.
C30_OnePathPerIdentity ==
    /\ PathsUnique(store)
    /\ PathsUnique(load(disk))
    /\ (hist.mode = "tracked")
       => \A i, j \in 1..Len(queue) : i # j => queue[i].name # queue[j].name

====
